---- MODULE Spec2Model ----

(***************************************************************************)
(* A model of ArtraCFD's sharp-interface immersed boundary core            *)
(* (Serial/immersed_boundary.c): node classification                       *)
(* (ComputeGeometryDomain) and ghost-node reconstruction                   *)
(* (ImmersedBoundaryTreatment) on a structured grid with halo layers.      *)
(*                                                                         *)
(* Real numbers are exact rationals <<numerator, denominator>>; rounding   *)
(* of floating point is not modelled.  Lengths are in units of half a      *)
(* grid spacing, so node points, sphere centres and radii are integers.    *)
(***************************************************************************)
EXTENDS Integers, Sequences, FiniteSets, TLC

(***************************************************************************)
(* Bounds of the model.                                                    *)
(***************************************************************************)
\* number of interior nodes along X (Y and Z hold one interior node each)
MX == 6

\* number of handler calls (ComputeGeometryDomain, ImmersedBoundaryTreatment)
\* and shape motions one behaviour makes
MaxCalls == 3

(***************************************************************************)
(* Program constants.                                                      *)
(***************************************************************************)
\* the "none" sentinel of commons.h
NONE == -1

\* typedef enum { R = 2 } IBM: starting half-width of the image-point search
R == 2

\* retained time levels of Node.U
TimeLevels == {"TO", "TN"}

(***************************************************************************)
(* Exact rational arithmetic for the C type Real.                          *)
(***************************************************************************)
Abs(x) == IF x < 0 THEN -x ELSE x

RECURSIVE GCD(_, _)
GCD(a, b) == IF b = 0 THEN a ELSE GCD(b, a % b)

Rat(n, d) ==
    LET s == IF d < 0 THEN -1 ELSE 1
        g == GCD(Abs(n), Abs(d))
    IN  <<(s * n) \div g, (s * d) \div g>>

RInt(n) == <<n, 1>>

\* sums and products reduce before they multiply, to keep the integers small
RAdd(a, b) ==
    LET g == GCD(a[2], b[2])
    IN  Rat(a[1] * (b[2] \div g) + b[1] * (a[2] \div g), (a[2] \div g) * b[2])

RNeg(a) == <<-a[1], a[2]>>
RSub(a, b) == RAdd(a, RNeg(b))

RMul(a, b) ==
    LET g == GCD(Abs(a[1]), b[2])
        h == GCD(Abs(b[1]), a[2])
    IN  IF a[1] = 0 \/ b[1] = 0 THEN <<0, 1>>
        ELSE <<(a[1] \div g) * (b[1] \div h), (a[2] \div h) * (b[2] \div g)>>

RInv(a) == IF a[1] < 0 THEN <<-a[2], -a[1]>> ELSE <<a[2], a[1]>>
RDiv(a, b) == RMul(a, RInv(b))
RLess(a, b) == a[1] * b[2] < b[1] * a[2]

(***************************************************************************)
(* Partition: grid extents, halo depth, spacing and the search template.   *)
(* The array holds n[X]*n[Y]*n[Z] nodes; the interior region PIN is        *)
(* [ng, n[s]-ng) in each dimension; every other node is an exterior (halo) *)
(* node.  Sequences are indexed X = 1, Y = 2, Z = 3.                       *)
(***************************************************************************)
RECURSIVE PathLayers(_)
PathLayers(r) ==
    IF r = 0 THEN << >>
    ELSE PathLayers(r - 1) \o
         \* cross directions, distance r
         << <<r, 0, 0>>, <<-r, 0, 0>>, <<0, r, 0>>, <<0, -r, 0>>,
            <<0, 0, r>>, <<0, 0, -r>> >> \o
         \* plane corners, distance r * sqrt(2)
         << <<r, r, 0>>, <<r, -r, 0>>, <<-r, r, 0>>, <<-r, -r, 0>>,
            <<r, 0, r>>, <<r, 0, -r>>, <<-r, 0, r>>, <<-r, 0, -r>>,
            <<0, r, r>>, <<0, r, -r>>, <<0, -r, r>>, <<0, -r, -r>> >>

part ==
    [ ng      |-> 2,
      gl      |-> 2,
      n       |-> <<MX + 4, 5, 5>>,
      nsMin   |-> <<2, 2, 2>>,
      nsMax   |-> <<MX + 2, 3, 3>>,
      domMin  |-> <<0, 0, 0>>,
      d       |-> <<2, 2, 2>>,
      tinyL   |-> <<1, 4>>,
      path    |-> PathLayers(2),
      \* pathSep[0] is the length of the template, pathSep[r] the end of layer r
      pathSep |-> [r \in 0 .. 2 |-> IF r = 1 THEN 18 ELSE 36] ]

model == [ gamma |-> <<7, 5>>, gasR |-> <<2, 1>> ]

idxMax == part.n[1] * part.n[2] * part.n[3]

\* linear array index math
IndexNode(k, j, i, jMax, iMax) == (k * jMax + j) * iMax + i

\* the linear indices of the interior region PIN
Interior ==
    { IndexNode(k, j, i, part.n[2], part.n[1]) :
        k \in part.nsMin[3] .. part.nsMax[3] - 1,
        j \in part.nsMin[2] .. part.nsMax[2] - 1,
        i \in part.nsMin[1] .. part.nsMax[1] - 1 }

\* the coordinates <<k, j, i>> of a linear index of the array
CoordOf(idx) ==
    << idx \div (part.n[2] * part.n[1]),
       (idx \div part.n[1]) % part.n[2],
       idx % part.n[1] >>

\* coordinate of node number n along one dimension
PointSpace(n, sMin, d, ng) == sMin + (n - ng) * d

\* (int)((s - sMin) * dd + 0.5) + ng with dd = 1 / d: the cast truncates
\* toward zero
NodeSpace(s, sMin, d, ng) ==
    LET num == 2 * (s - sMin) + d
        den == 2 * d
    IN  (IF num >= 0 THEN num \div den ELSE -((-num) \div den)) + ng

ValidNodeSpace(n, nMin, nMax) ==
    LET lo == IF n > nMin THEN n ELSE nMin
    IN  IF lo < nMax - 1 THEN lo ELSE nMax - 1

\* the point of node <<k, j, i>>
PointOf(k, j, i) ==
    << PointSpace(i, part.domMin[1], part.d[1], part.ng),
       PointSpace(j, part.domMin[2], part.d[2], part.ng),
       PointSpace(k, part.domMin[3], part.d[3], part.ng) >>

Dist2(a, b) ==
    (a[1] - b[1]) * (a[1] - b[1]) + (a[2] - b[2]) * (a[2] - b[2])
        + (a[3] - b[3]) * (a[3] - b[3])

Dot(a, b) == a[1] * b[1] + a[2] * b[2] + a[3] * b[3]

Cross(a, b) ==
    << a[2] * b[3] - a[3] * b[2],
       a[3] * b[1] - a[1] * b[3],
       a[1] * b[2] - a[2] * b[1] >>

\* Euclidean norm of an integer vector; the shapes of this model lie on the
\* node line, so every norm taken is an integer
Norm(v) == CHOOSE s \in 0 .. Dot(v, v) : s * s = Dot(v, v)

(***************************************************************************)
(* Flow state: conservative U[0..4] and primitive Uo[0..5] =               *)
(* (rho, u, v, w, p, T).                                                   *)
(***************************************************************************)
Half == <<1, 2>>

PrimitiveByConservative(gamma, gasR, U) ==
    LET rho == U[0]
        u   == RDiv(U[1], rho)
        v   == RDiv(U[2], rho)
        w   == RDiv(U[3], rho)
        ke  == RMul(Half, RMul(rho, RAdd(RMul(u, u), RAdd(RMul(v, v), RMul(w, w)))))
        p   == RMul(RSub(gamma, RInt(1)), RSub(U[4], ke))
    IN  [c \in 0 .. 5 |->
            CASE c = 0 -> rho
              [] c = 1 -> u
              [] c = 2 -> v
              [] c = 3 -> w
              [] c = 4 -> p
              [] c = 5 -> RDiv(p, RMul(rho, gasR))]

ConservativeByPrimitive(gamma, Uo) ==
    LET ke == RMul(Half, RMul(Uo[0], RAdd(RMul(Uo[1], Uo[1]),
                  RAdd(RMul(Uo[2], Uo[2]), RMul(Uo[3], Uo[3])))))
    IN  [c \in 0 .. 4 |->
            CASE c = 0 -> Uo[0]
              [] c = 1 -> RMul(Uo[0], Uo[1])
              [] c = 2 -> RMul(Uo[0], Uo[2])
              [] c = 3 -> RMul(Uo[0], Uo[3])
              [] c = 4 -> RAdd(ke, RDiv(Uo[4], RSub(gamma, RInt(1))))]

\* Normalize(dim, normalizer, V): V[n] = V[n] / normalizer
Normalize(normalizer, V) == [c \in DOMAIN V |-> RDiv(V[c], normalizer)]

\* Uo[0] = Uo[4] / (Uo[5] * gasR): density by the equation of state
WithDensity(Uo) ==
    [Uo EXCEPT ![0] = RDiv(Uo[4], RMul(Uo[5], model.gasR))]

ZeroUo == [c \in 0 .. 5 |-> RInt(0)]

(***************************************************************************)
(* Nodes.  The array is stored for the interior region; an exterior node   *)
(* carries gid = NONE and is never written by this file.                   *)
(***************************************************************************)
\* the flow fields the solver starts from: the free stream at rest (u = 0,
\* p = 2, T = 1), and a sheared field in which node i along X carries
\* u = i % 2, p = 2 + 2 * (i % 3), T = 1
InitialPrimitive(field, idx) ==
    LET i == IF field = "sheared" THEN CoordOf(idx)[3] ELSE 0
    IN  WithDensity([c \in 0 .. 5 |->
            CASE c = 0 -> RInt(0)
              [] c = 1 -> RInt(i % 2)
              [] c = 2 -> RInt(0)
              [] c = 3 -> RInt(0)
              [] c = 4 -> RInt(2 + 2 * (i % 3))
              [] c = 5 -> RInt(1)])

InitialU(field, idx) ==
    [t \in TimeLevels |->
        ConservativeByPrimitive(model.gamma, InitialPrimitive(field, idx))]

ExteriorNode(idx) ==
    [gid |-> NONE, fid |-> NONE, lid |-> 0, gst |-> 0, U |-> InitialU("stream", idx)]

NodeAt(nd, idx) == IF idx \in DOMAIN nd THEN nd[idx] ELSE ExteriorNode(idx)

(***************************************************************************)
(* State.                                                                  *)
(*   node     the node array (gid, fid, lid, gst, U) of the interior       *)
(*   poly     the geometry collection, geo->poly[0 .. totN-1] as poly[1..] *)
(*   ibmLayer model->ibmLayer                                              *)
(*   pc       the loop the running handler is in, or "idle", or "hung"     *)
(*            when a search of InverseDistanceWeighting never returns      *)
(*   loop     the shape n, layer r and time level tn of the running loop   *)
(*   todo     the nodes the running loop has not visited yet               *)
(*   before   the node array when the running (or last) handler was called *)
(*   entry    the node array when the running (or last) phase was entered: *)
(*            the reset, ownership or interfacial phase, or one layer of   *)
(*            one shape of the boundary treatment                          *)
(*   last     the last loop body executed and the search it made           *)
(*   written  the nodes whose state the running (or last) call of          *)
(*            ImmersedBoundaryTreatment has written, with the write count  *)
(*   calls    the number of handler calls and shape updates made           *)
(*   sched    "serial": loops visit nodes in the order of the source;      *)
(*            "any": in any order                                          *)
(***************************************************************************)
VARIABLES node, poly, ibmLayer, pc, loop, todo, before, entry, last, written,
          calls, sched

vars == <<node, poly, ibmLayer, pc, loop, todo, before, entry, last, written,
          calls, sched>>

(***************************************************************************)
(* InitializeGeometryDomain: the body of the loop over the interior.       *)
(***************************************************************************)
\* a faulty reset: an interfacial node of a moving shape loses its owner
\* but keeps its layer and ghost markers
ResetKeepsLayers(nd, ps, idx) ==
    LET gid == nd[idx].gid
    IN  IF 0 >= gid
        THEN [nd EXCEPT ![idx].gid = 0, ![idx].lid = 0, ![idx].gst = 0]
        ELSE IF 1 = ps[gid].state
        THEN [nd EXCEPT ![idx].lid = 0, ![idx].gst = 0]
        ELSE IF 0 < nd[idx].lid
        THEN [nd EXCEPT ![idx].gid = 0]
        ELSE nd

\* a faulty reset: a node of a stationary shape loses its owner
ResetForgetsStationary(nd, ps, idx) ==
    LET gid == nd[idx].gid
    IN  IF 0 >= gid
        THEN [nd EXCEPT ![idx].gid = 0, ![idx].lid = 0, ![idx].gst = 0]
        ELSE IF 1 = ps[gid].state
        THEN [nd EXCEPT ![idx].gid = 0, ![idx].lid = 0, ![idx].gst = 0]
        ELSE IF 0 < nd[idx].lid
        THEN [nd EXCEPT ![idx].gid = 0, ![idx].lid = 0, ![idx].gst = 0]
        ELSE nd

\* a faulty reset: every node of a moving shape loses its owner, the
\* non-interfacial ones too
ResetClearsDeep(nd, ps, idx) ==
    LET gid == nd[idx].gid
    IN  IF 0 >= gid
        THEN [nd EXCEPT ![idx].gid = 0, ![idx].lid = 0, ![idx].gst = 0]
        ELSE IF 1 = ps[gid].state
        THEN [nd EXCEPT ![idx].lid = 0, ![idx].gst = 0]
        ELSE [nd EXCEPT ![idx].gid = 0, ![idx].lid = 0, ![idx].gst = 0]

ResetNode(nd, ps, idx) ==
    LET gid == nd[idx].gid
    IN  IF 0 >= gid
        THEN [nd EXCEPT ![idx].gid = 0, ![idx].lid = 0, ![idx].gst = 0]
        ELSE IF 1 = ps[gid].state
        THEN [nd EXCEPT ![idx].lid = 0, ![idx].gst = 0]
        ELSE IF 0 < nd[idx].lid
        THEN [nd EXCEPT ![idx].gid = 0, ![idx].lid = 0, ![idx].gst = 0]
        ELSE nd

(***************************************************************************)
(* IdentifyGeometryNode: the search box of shape n (0-based, as in the     *)
(* source) and the body of the loop over the box.                          *)
(***************************************************************************)
BoxMin(ps, n, s) ==
    ValidNodeSpace(NodeSpace(ps[n + 1].box[s][1], part.domMin[s], part.d[s], part.ng),
                   part.nsMin[s], part.nsMax[s])

BoxMax(ps, n, s) ==
    ValidNodeSpace(NodeSpace(ps[n + 1].box[s][2], part.domMin[s], part.d[s], part.ng),
                   part.nsMin[s], part.nsMax[s]) + 1

BoxNodes(ps, n) ==
    { IndexNode(k, j, i, part.n[2], part.n[1]) :
        k \in BoxMin(ps, n, 3) .. BoxMax(ps, n, 3) - 1,
        j \in BoxMin(ps, n, 2) .. BoxMax(ps, n, 2) - 1,
        i \in BoxMin(ps, n, 1) .. BoxMax(ps, n, 1) - 1 }

\* PointInPolyhedron of computational_geometry.c for the triangulated
\* shapes of this model, axis-aligned boxes: inside or on the box, and the
\* nearest face along X (0 = low face, 1 = high face)
PointInPolyhedron(p, shape) ==
    \A s \in 1 .. 3 : shape.box[s][1] <= p[s] /\ p[s] <= shape.box[s][2]

NearestFace(p, shape) ==
    IF p[1] - shape.box[1][1] <= shape.box[1][2] - p[1] THEN 0 ELSE 1

InSphere(shape, p) == shape.r * shape.r >= Dist2(shape.O, p)

\* a faulty claim: the body without the test of line 169
ClaimOverwrites(nd, ps, n, idx) ==
    LET c == CoordOf(idx)
        p == PointOf(c[1], c[2], c[3])
        shape == ps[n + 1]
    IN  IF 0 = shape.faceN
        THEN IF InSphere(shape, p)
             THEN [nd EXCEPT ![idx].gid = n + 1, ![idx].fid = 0]
             ELSE nd
        ELSE IF PointInPolyhedron(p, shape)
             THEN [nd EXCEPT ![idx].gid = n + 1, ![idx].fid = NearestFace(p, shape)]
             ELSE nd

ClaimNode(nd, ps, n, idx) ==
    LET c == CoordOf(idx)
        p == PointOf(c[1], c[2], c[3])
        shape == ps[n + 1]
    IN  IF 0 # nd[idx].gid
        THEN nd
        ELSE IF 0 = shape.faceN
        THEN IF InSphere(shape, p)
             THEN [nd EXCEPT ![idx].gid = n + 1, ![idx].fid = 0]
             ELSE nd
        ELSE IF PointInPolyhedron(p, shape)
             THEN [nd EXCEPT ![idx].gid = n + 1, ![idx].fid = NearestFace(p, shape)]
             ELSE nd

(***************************************************************************)
(* InverseDistanceWeighting and ApplyWeighting.                            *)
(***************************************************************************)
\* acc is the pair the C code updates in place: weightSum and Uo
ApplyWeighting(Uoh, tiny, weight, acc) ==
    LET clamped == IF RLess(weight, tiny) THEN tiny ELSE weight
        w == RDiv(RInt(1), clamped)
    IN  [weightSum |-> RAdd(acc.weightSum, w),
         Uo |-> [c \in 0 .. 5 |-> RAdd(acc.Uo[c], RMul(Uoh[c], w))]]

\* the candidate <<k, j, i>> of offset o = <<kh, jh, ih>> around centre
\* n = <<n[X], n[Y], n[Z]>>
Candidate(n, o) == <<n[3] + o[1], n[2] + o[2], n[1] + o[3]>>

CandidateIndex(n, o) ==
    IndexNode(n[3] + o[1], n[2] + o[2], n[1] + o[3], part.n[2], part.n[1])

\* lines 516-530: the index test and the ownership / type filter
Qualifies(nd, idx, type, gid) ==
    /\ ~((0 > idx) \/ (idxMax <= idx))
    /\ gid = NodeAt(nd, idx).gid
    /\ IF 0 = gid THEN type = NodeAt(nd, idx).fid
                  ELSE type = NodeAt(nd, idx).gst

\* the offsets of the cube of half-width r that are accumulated
Donors(nd, n, r, type, gid) ==
    { o \in (-r .. r) \X (-r .. r) \X (-r .. r) :
        Qualifies(nd, CandidateIndex(n, o), type, gid) }

\* for (r = h, tally = 0; 0 == tally; ++r): the radius the loop exits at
RECURSIVE SearchRadius(_, _, _, _, _)
SearchRadius(nd, n, r, type, gid) ==
    IF Donors(nd, n, r, type, gid) # {} THEN r
    ELSE SearchRadius(nd, n, r + 1, type, gid)

\* no node of the array passes the filter: tally stays 0 at every radius and
\* the loop never exits
Diverges(nd, type, gid) ==
    \A idx \in Interior : ~Qualifies(nd, idx, type, gid)

RECURSIVE Accumulate(_, _, _, _, _, _)
Accumulate(nd, tn, n, p, S, acc) ==
    IF S = {} THEN acc
    ELSE LET o   == CHOOSE x \in S : TRUE
             c   == Candidate(n, o)
             ph  == PointOf(c[1], c[2], c[3])
             Uoh == PrimitiveByConservative(model.gamma, model.gasR,
                        NodeAt(nd, CandidateIndex(n, o)).U[tn])
         IN  Accumulate(nd, tn, n, p, S \ {o},
                        ApplyWeighting(Uoh, part.tinyL, RInt(Dist2(p, ph)), acc))

\* the result of a call that returns: the exit radius, the accumulated
\* offsets (tally is their number), weightSum and Uo
\* (a value computed by a search is bound as the element of a one-element
\* set, here and below, so that the search is evaluated once)
Weighted(nd, tn, n, p, h, type, gid, r, D) ==
    CHOOSE out \in
        { [n |-> n, p |-> p, h |-> h, type |-> type, gid |-> gid, r |-> r,
           donors |-> D, weightSum |-> acc.weightSum, Uo |-> acc.Uo] :
          acc \in { Accumulate(nd, tn, n, p, D,
                               [weightSum |-> RInt(0), Uo |-> ZeroUo]) } } : TRUE

InverseDistanceWeighting(nd, tn, n, p, h, type, gid) ==
    CHOOSE out \in
        { Weighted(nd, tn, n, p, h, type, gid, w.r, w.D) :
          w \in { [r |-> r, D |-> Donors(nd, n, r, type, gid)] :
                  r \in {SearchRadius(nd, n, h, type, gid)} } } : TRUE

NoIDW == [n |-> <<0, 0, 0>>, p |-> <<0, 0, 0>>, h |-> 0, type |-> NONE, gid |-> NONE, r |-> 0,
          donors |-> {}, weightSum |-> RInt(0), Uo |-> ZeroUo]

(***************************************************************************)
(* IdentifyInterfacialNode with InterfacialState and GhostState.           *)
(***************************************************************************)
PathIndex(k, j, i, n) ==
    IndexNode(k + part.path[n + 1][3], j + part.path[n + 1][2],
              i + part.path[n + 1][1], part.n[2], part.n[1])

\* the layer r = 1 .. gl with pathSep[r] > n, 0 if there is none
LayerOf(n) ==
    IF \E r \in 1 .. part.gl : part.pathSep[r] > n
    THEN CHOOSE r \in 1 .. part.gl :
            /\ part.pathSep[r] > n
            /\ \A q \in 1 .. r - 1 : ~(part.pathSep[q] > n)
    ELSE 0

RECURSIVE InterfacialScan(_, _, _, _, _, _, _)
InterfacialScan(n, k, j, i, gid, end, nd) ==
    IF ~(n < end) THEN 0
    ELSE LET g == NodeAt(nd, PathIndex(k, j, i, n)).gid
         IN  IF NONE = g THEN InterfacialScan(n + 1, k, j, i, gid, end, nd)
             ELSE IF gid # g /\ LayerOf(n) # 0 THEN LayerOf(n)
             ELSE InterfacialScan(n + 1, k, j, i, gid, end, nd)

\* a faulty scan: any heterogeneous neighbour puts the node in the deepest
\* layer
InterfacialStateDeepest(k, j, i, gid, end, nd) ==
    IF InterfacialScan(0, k, j, i, gid, end, nd) # 0 THEN part.gl ELSE 0

InterfacialState(k, j, i, gid, end, nd) == InterfacialScan(0, k, j, i, gid, end, nd)

RECURSIVE GhostScan(_, _, _, _, _, _, _)
GhostScan(n, k, j, i, gid, end, nd) ==
    IF ~(n < end) THEN 0
    ELSE LET g == NodeAt(nd, PathIndex(k, j, i, n)).gid
         IN  IF NONE = g THEN GhostScan(n + 1, k, j, i, gid, end, nd)
             ELSE IF gid = g /\ LayerOf(n) # 0 THEN LayerOf(n)
             ELSE GhostScan(n + 1, k, j, i, gid, end, nd)

GhostState(k, j, i, gid, end, nd) == GhostScan(0, k, j, i, gid, end, nd)

\* lines 242-255: a newly joined node
NewlyJoined(nd, idx) == (NONE # nd[idx].fid) /\ (0 = nd[idx].gid)

\* the search of a newly joined node finds no donor and never returns
InterfacialHangs(nd, idx) == NewlyJoined(nd, idx) /\ Diverges(nd, NONE, 0)

InterfacialIDW(nd, idx) ==
    LET c == CoordOf(idx)
    IN  IF NewlyJoined(nd, idx)
        THEN InverseDistanceWeighting(nd, "TO", <<c[3], c[2], c[1]>>,
                                      PointOf(c[1], c[2], c[3]), R, NONE, 0)
        ELSE NoIDW

\* a faulty reconstruction: the face identifier is not reset to NONE
ReconstructedKeepsFace(nd, idx, w) ==
    CHOOSE out \in
        { [nd EXCEPT ![idx].U["TO"] =
                        ConservativeByPrimitive(model.gamma, WithDensity(Uo))] :
          Uo \in {Normalize(w.weightSum, w.Uo)} } : TRUE

\* lines 249-254, for the result w of the search
Reconstructed(nd, idx, w) ==
    CHOOSE out \in
        { [nd EXCEPT ![idx].U["TO"] =
                        ConservativeByPrimitive(model.gamma, WithDensity(Uo)),
                     ![idx].fid = NONE] :
          Uo \in {Normalize(w.weightSum, w.Uo)} } : TRUE

\* a faulty classification: the ghost state is taken from the neighbours of
\* the node's own shape instead of the unowned ones
ClassifiedByOwner(nd, idx) ==
    LET c   == CoordOf(idx)
        lid == InterfacialState(c[1], c[2], c[3], nd[idx].gid, part.pathSep[0], nd)
        gst == IF (0 # lid) /\ (0 # nd[idx].gid)
               THEN GhostState(c[1], c[2], c[3], nd[idx].gid, part.pathSep[0], nd)
               ELSE 0
    IN  [nd EXCEPT ![idx].lid = lid, ![idx].gst = gst]

\* lines 265-270
Classified(nd, idx) ==
    LET c   == CoordOf(idx)
        lid == InterfacialState(c[1], c[2], c[3], nd[idx].gid, part.pathSep[0], nd)
        gst == IF (0 # lid) /\ (0 # nd[idx].gid)
               THEN GhostState(c[1], c[2], c[3], 0, part.pathSep[0], nd)
               ELSE 0
    IN  [nd EXCEPT ![idx].lid = lid, ![idx].gst = gst]

\* the body of the loop over the interior, for a node whose search returns;
\* a newly joined node has gid = 0 and leaves the body at line 257
InterfacialNode(nd, idx) ==
    IF NewlyJoined(nd, idx)
    THEN CHOOSE out \in { Reconstructed(nd, idx, w) :
                          w \in {InterfacialIDW(nd, idx)} } : TRUE
    ELSE IF 0 = nd[idx].gid THEN nd
    ELSE Classified(nd, idx)

(***************************************************************************)
(* ImmersedBoundaryTreatment: geometric data, flow reconstruction, method  *)
(* of image and the body of the loop over the box of a shape.              *)
(***************************************************************************)
\* ComputeIntersection of computational_geometry.c for the axis-aligned
\* boxes of this model: the foot on face fid and its outward normal
ComputeIntersection(pG, fid, shape) ==
    IF fid = 0
    THEN [pO |-> <<shape.box[1][1], pG[2], pG[3]>>, N |-> <<-1, 0, 0>>]
    ELSE [pO |-> <<shape.box[1][2], pG[2], pG[3]>>, N |-> <<1, 0, 0>>]

ComputeGeometricData(fid, shape, pG) ==
    LET g == IF 0 = shape.faceN
             THEN LET Nv   == <<pG[1] - shape.O[1], pG[2] - shape.O[2], pG[3] - shape.O[3]>>
                      dist == Norm(Nv)
                      N    == <<Nv[1] \div dist, Nv[2] \div dist, Nv[3] \div dist>>
                      back == shape.r - dist
                  IN  [pO |-> <<pG[1] + back * N[1], pG[2] + back * N[2],
                                pG[3] + back * N[3]>>,
                       N |-> N]
             ELSE ComputeIntersection(pG, fid, shape)
    IN  [pO |-> g.pO, N |-> g.N,
         pI |-> <<g.pO[1] + g.pO[1] - pG[1], g.pO[2] + g.pO[2] - pG[2],
                  g.pO[3] + g.pO[3] - pG[3]>>]

\* OrthogonalSpace of the linear algebra helpers, for a unit normal in the
\* X-Y plane
OrthogonalSpace(N) ==
    LET Ta == <<-N[2], N[1], 0>>
    IN  [Ta |-> Ta, Tb |-> Cross(N, Ta)]

\* Dot of a rational vector VI[1..3] with an integer vector
RDot(VI, T) ==
    RAdd(RMul(VI[1], RInt(T[1])),
         RAdd(RMul(VI[2], RInt(T[2])), RMul(VI[3], RInt(T[3]))))

\* lines 447-490, after the pre-estimate idw: UoO[0] is never assigned by the
\* source and keeps its initial 0.0
BoundaryState(idw, shape, pO, N) ==
    LET weight == RDiv(RInt(1), idw.weightSum)
        rv     == <<pO[1] - shape.O[1], pO[2] - shape.O[2], pO[3] - shape.O[3]>>
        Wr     == Cross(shape.W, rv)
        Vs     == <<shape.V[1] + Wr[1], shape.V[2] + Wr[2], shape.V[3] + Wr[3]>>
        VI     == [c \in 1 .. 3 |-> RMul(idw.Uo[c], weight)]
        T      == OrthogonalSpace(N)
        RHS    == <<RInt(Dot(Vs, N)), RDot(VI, T.Ta), RDot(VI, T.Tb)>>
    IN  [c \in 0 .. 5 |->
            CASE c = 0 -> RInt(0)
              [] c \in 1 .. 3 ->
                    IF 0 < shape.cf
                    THEN RInt(Vs[c])
                    ELSE RAdd(RMul(RInt(N[c]), RHS[1]),
                              RAdd(RMul(RInt(T.Ta[c]), RHS[2]),
                                   RMul(RInt(T.Tb[c]), RHS[3])))
              [] c = 4 -> RMul(idw.Uo[4], weight)
              [] c = 5 -> IF 0 > shape.T
                          THEN RMul(idw.Uo[5], weight)
                          ELSE RInt(shape.T)]

\* lines 486-489: the correction step, the boundary point added as a stencil
Corrected(idw, UoO, p, pO) ==
    CHOOSE out \in
        { Normalize(acc.weightSum, acc.Uo) :
          acc \in {ApplyWeighting(UoO, part.tinyL, RInt(Dist2(p, pO)),
                                  [weightSum |-> idw.weightSum, Uo |-> idw.Uo])} } : TRUE

FlowReconstruction(nd, tn, n, p, h, type, gid, shape, pO, N) ==
    CHOOSE out \in
        { [UoO |-> BoundaryState(idw, shape, pO, N),
           UoI |-> Corrected(idw, BoundaryState(idw, shape, pO, N), p, pO),
           idw |-> idw] :
          idw \in {InverseDistanceWeighting(nd, tn, n, p, h, type, gid)} } : TRUE

\* a faulty image: the ghost velocity is the image velocity mirrored about
\* zero, the velocity of the boundary ignored
MethodOfImageAtRest(UoI, UoO) ==
    [c \in 0 .. 5 |->
        CASE c = 0 -> RInt(0)
          [] c \in 1 .. 3 -> RNeg(UoI[c])
          [] c = 4 -> UoI[4]
          [] c = 5 -> UoI[5]]

\* UoG[0] is not assigned here; the caller overwrites it with the density
MethodOfImage(UoI, UoO) ==
    [c \in 0 .. 5 |->
        CASE c = 0 -> RInt(0)
          [] c \in 1 .. 3 -> RSub(RAdd(UoO[c], UoO[c]), UoI[c])
          [] c = 4 -> UoI[4]
          [] c = 5 -> UoI[5]]

\* line 363: the node is a layer-r ghost node of shape n
IsGhostOf(nd, n, r, idx) == ~((r # nd[idx].gst) \/ (n + 1 # nd[idx].gid))

TreatmentHangs(nd, ibm, n, r, idx) ==
    /\ IsGhostOf(nd, n, r, idx)
    /\ IF ibm >= r THEN Diverges(nd, NONE, 0) ELSE Diverges(nd, r - 1, n + 1)

\* a faulty treatment: the approximate branch takes its donors from the
\* layer being written, r, not from the layer before
GhostTreatmentSameLayer(nd, ps, ibm, tn, n, r, idx) ==
    LET c   == CoordOf(idx)
        pG  == PointOf(c[1], c[2], c[3])
    IN  IF ibm >= r
        THEN LET g  == ComputeGeometricData(nd[idx].fid, ps[n + 1], pG)
                 nI == [s \in 1 .. 3 |->
                          NodeSpace(g.pI[s], part.domMin[s], part.d[s], part.ng)]
             IN  CHOOSE out \in
                     { [idw |-> f.idw, UoO |-> f.UoO, UoI |-> f.UoI,
                        UoG |-> MethodOfImage(f.UoI, f.UoO)] :
                       f \in {FlowReconstruction(nd, tn, nI, g.pI, R, NONE, 0,
                                                 ps[n + 1], g.pO, g.N)} } : TRUE
        ELSE CHOOSE out \in
                 { [idw |-> w, UoO |-> ZeroUo, UoI |-> ZeroUo,
                    UoG |-> Normalize(w.weightSum, w.Uo)] :
                   w \in {InverseDistanceWeighting(nd, tn, <<c[3], c[2], c[1]>>,
                                                   pG, 1, r, n + 1)} } : TRUE

\* lines 366-389: the search, the boundary and image states and the primitive
\* state UoG of a treated ghost node
GhostTreatment(nd, ps, ibm, tn, n, r, idx) ==
    LET c   == CoordOf(idx)
        pG  == PointOf(c[1], c[2], c[3])
    IN  IF ibm >= r
        THEN LET g  == ComputeGeometricData(nd[idx].fid, ps[n + 1], pG)
                 nI == [s \in 1 .. 3 |->
                          NodeSpace(g.pI[s], part.domMin[s], part.d[s], part.ng)]
             IN  CHOOSE out \in
                     { [idw |-> f.idw, UoO |-> f.UoO, UoI |-> f.UoI,
                        UoG |-> MethodOfImage(f.UoI, f.UoO)] :
                       f \in {FlowReconstruction(nd, tn, nI, g.pI, R, NONE, 0,
                                                 ps[n + 1], g.pO, g.N)} } : TRUE
        ELSE CHOOSE out \in
                 { [idw |-> w, UoO |-> ZeroUo, UoI |-> ZeroUo,
                    UoG |-> Normalize(w.weightSum, w.Uo)] :
                   w \in {InverseDistanceWeighting(nd, tn, <<c[3], c[2], c[1]>>,
                                                   pG, 1, r - 1, n + 1)} } : TRUE

\* a faulty store: the ghost state goes to every time level
StoreGhostAllLevels(nd, tn, idx, UoG) ==
    [nd EXCEPT ![idx].U = [t \in TimeLevels |->
                    ConservativeByPrimitive(model.gamma, WithDensity(UoG))]]

\* lines 390-391: the density by the equation of state, then the store
StoreGhost(nd, tn, idx, UoG) ==
    [nd EXCEPT ![idx].U[tn] = ConservativeByPrimitive(model.gamma, WithDensity(UoG))]

\* the body of the loop of layer r of shape n, for a node whose search returns
TreatNode(nd, ps, ibm, tn, n, r, idx) ==
    IF ~IsGhostOf(nd, n, r, idx) THEN nd
    ELSE CHOOSE out \in
             { StoreGhost(nd, tn, idx, t.UoG) :
               t \in {GhostTreatment(nd, ps, ibm, tn, n, r, idx)} } : TRUE

(***************************************************************************)
(* The geometry collection: a triangulated box followed by an analytical   *)
(* sphere, both centred on the node line.                                  *)
(***************************************************************************)
BoxOf(O, half) ==
    << <<O[1] - half, O[1] + half>>, <<O[2] - half, O[2] + half>>,
       <<O[3] - half, O[3] + half>> >>

Shape(faceN, r, x, cf, T, V, W) ==
    [state |-> 0, faceN |-> faceN, r |-> r, O |-> <<x, 0, 0>>,
     box |-> BoxOf(<<x, 0, 0>>, r), cf |-> cf, T |-> T, V |-> V, W |-> W]

totN == 2

\* the centres <<box, sphere>> the shapes start at: apart, the box inside
\* the sphere, side by side, and the sphere against the high end
Placements == { <<-1, 5>>, <<5, 5>>, <<5, 11>>, <<-1, 9>> }

InitialGeometry ==
    { << Shape(12, 1, x[1], 1, -1, <<1, 0, 0>>, <<0, 0, 0>>),
         Shape(0, 3, x[2], 0, 3, <<0, 0, 0>>, <<0, 0, 1>>) >> :
        x \in Placements }

\* the centres a moving shape may take: from one spacing outside the low end
\* of the domain to one spacing outside the high end
Centres == { x \in -3 .. 2 * MX + 1 : x % 2 = 1 }

CleanNode(field, idx) ==
    [gid |-> 0, fid |-> NONE, lid |-> 0, gst |-> 0, U |-> InitialU(field, idx)]

\* the node array before the first classification
CleanArray(field) == [idx \in Interior |-> CleanNode(field, idx)]

\* the record of a step of kind at node idx
Logged(kind, idx) ==
    [kind |-> kind, idx |-> idx, idw |-> NoIDW,
     UoO |-> ZeroUo, UoI |-> ZeroUo, UoG |-> ZeroUo]

NoBody == Logged("none", 0)

Init ==
    /\ node \in { CleanArray(field) : field \in {"stream", "sheared"} }
    /\ poly \in InitialGeometry
    /\ ibmLayer \in 1 .. part.gl
    /\ pc = "stale"
    /\ loop = [n |-> 0, r |-> 0, tn |-> "TO"]
    /\ todo = {}
    /\ before = node
    /\ entry = node
    /\ last = NoBody
    /\ written = [idx \in Interior |-> 0]
    /\ calls = 0
    /\ sched \in {"serial", "any"}

\* the serial program starts from the free stream
InitSerial == Init /\ sched = "serial" /\ node = CleanArray("stream")

\* the behaviours with loops in any order start from the sheared field,
\* where two orders of reconstruction give different states, and use the
\* exact treatment for the first ghost layer only
InitAny == Init /\ sched = "any" /\ ibmLayer = 1 /\ node = CleanArray("sheared")

\* the node a loop visits next
Picks(idx) ==
    /\ idx \in todo
    /\ sched = "serial" => \A other \in todo : idx <= other

(***************************************************************************)
(* The caller: shape motion and state updates between handler calls.  The  *)
(* geometry is "stale" from a change until the next classification, and   *)
(* the boundary treatment runs on a classified geometry only.             *)
(***************************************************************************)
MoveShape(n, dx) ==
    /\ pc \in {"idle", "stale"} /\ calls < MaxCalls
    /\ poly[n + 1].state # 1
    /\ poly[n + 1].O[1] + dx \in Centres
    /\ poly' = [poly EXCEPT
                   ![n + 1].O = <<poly[n + 1].O[1] + dx, 0, 0>>,
                   ![n + 1].box = BoxOf(<<poly[n + 1].O[1] + dx, 0, 0>>, poly[n + 1].r)]
    /\ pc' = "stale"
    /\ calls' = calls + 1
    /\ UNCHANGED <<node, ibmLayer, loop, todo, before, entry, last, written, sched>>

\* a shape is flagged stationary, or moving again, once it is classified
SetState(n) ==
    /\ pc = "idle" /\ calls < MaxCalls
    /\ poly' = [poly EXCEPT ![n + 1].state = 1 - poly[n + 1].state]
    /\ pc' = "stale"
    /\ calls' = calls + 1
    /\ UNCHANGED <<node, ibmLayer, loop, todo, before, entry, last, written, sched>>

(***************************************************************************)
(* ComputeGeometryDomain.                                                  *)
(***************************************************************************)
CallComputeGeometryDomain ==
    /\ pc \in {"idle", "stale"} /\ calls < MaxCalls
    /\ pc' = "reset"
    /\ todo' = Interior
    /\ before' = node
    /\ entry' = node
    /\ last' = NoBody
    /\ calls' = calls + 1
    /\ UNCHANGED <<node, poly, ibmLayer, loop, written, sched>>

InitializeGeometryDomain(idx) ==
    /\ pc = "reset" /\ Picks(idx)
    /\ node' = ResetNode(node, poly, idx)
    /\ todo' = todo \ {idx}
    /\ last' = Logged("reset", idx)
    /\ UNCHANGED <<poly, ibmLayer, pc, loop, before, entry, written, calls, sched>>

\* lines 154-158: the loop header of shape n
ShapeNodes(ps, n) == IF 1 = ps[n + 1].state THEN {} ELSE BoxNodes(ps, n)

EnterIdentifyGeometryNode ==
    /\ pc = "reset" /\ todo = {}
    /\ pc' = "own"
    /\ loop' = [loop EXCEPT !.n = 0]
    /\ todo' = ShapeNodes(poly, 0)
    /\ entry' = node
    /\ UNCHANGED <<node, poly, ibmLayer, before, last, written, calls, sched>>

IdentifyGeometryNode(idx) ==
    /\ pc = "own" /\ Picks(idx)
    /\ node' = ClaimNode(node, poly, loop.n, idx)
    /\ todo' = todo \ {idx}
    /\ last' = Logged("own", idx)
    /\ UNCHANGED <<poly, ibmLayer, pc, loop, before, entry, written, calls, sched>>

NextShape ==
    /\ pc = "own" /\ todo = {} /\ loop.n + 1 < totN
    /\ loop' = [loop EXCEPT !.n = loop.n + 1]
    /\ todo' = ShapeNodes(poly, loop.n + 1)
    /\ UNCHANGED <<node, poly, ibmLayer, pc, before, entry, last, written, calls, sched>>

EnterIdentifyInterfacialNode ==
    /\ pc = "own" /\ todo = {} /\ ~(loop.n + 1 < totN)
    /\ pc' = "iface"
    /\ todo' = Interior
    /\ entry' = node
    /\ UNCHANGED <<node, poly, ibmLayer, loop, before, last, written, calls, sched>>

IdentifyInterfacialNode(idx) ==
    /\ pc = "iface" /\ Picks(idx)
    /\ IF InterfacialHangs(node, idx)
       THEN /\ pc' = "hung"
            /\ last' = Logged("hang", idx)
            /\ UNCHANGED <<node, todo>>
       ELSE /\ IF NewlyJoined(node, idx)
               THEN \E w \in {InterfacialIDW(node, idx)} :
                       /\ node' = Reconstructed(node, idx, w)
                       /\ last' = [Logged("joined", idx) EXCEPT !.idw = w]
               ELSE /\ node' = InterfacialNode(node, idx)
                    /\ last' = Logged("iface", idx)
            /\ todo' = todo \ {idx}
            /\ pc' = pc
    /\ UNCHANGED <<poly, ibmLayer, loop, before, entry, written, calls, sched>>

ReturnComputeGeometryDomain ==
    /\ pc = "iface" /\ todo = {}
    /\ pc' = "idle"
    /\ UNCHANGED <<node, poly, ibmLayer, loop, todo, before, entry, last, written,
                   calls, sched>>

(***************************************************************************)
(* ImmersedBoundaryTreatment(tn).                                          *)
(***************************************************************************)
\* a faulty call: the loop over the layers starts at the deepest layer
CallFromDeepestLayer(tn) ==
    /\ pc = "idle" /\ calls < MaxCalls
    /\ pc' = "ibt"
    /\ loop' = [n |-> 0, r |-> part.gl, tn |-> tn]
    /\ todo' = BoxNodes(poly, 0)
    /\ before' = node
    /\ entry' = node
    /\ last' = NoBody
    /\ written' = [idx \in Interior |-> 0]
    /\ calls' = calls + 1
    /\ UNCHANGED <<node, poly, ibmLayer, sched>>

CallImmersedBoundaryTreatment(tn) ==
    /\ pc = "idle" /\ calls < MaxCalls
    /\ pc' = "ibt"
    /\ loop' = [n |-> 0, r |-> 1, tn |-> tn]
    /\ todo' = BoxNodes(poly, 0)
    /\ before' = node
    /\ entry' = node
    /\ last' = NoBody
    /\ written' = [idx \in Interior |-> 0]
    /\ calls' = calls + 1
    /\ UNCHANGED <<node, poly, ibmLayer, sched>>

ImmersedBoundaryTreatment(idx) ==
    /\ pc = "ibt" /\ Picks(idx)
    /\ IF TreatmentHangs(node, ibmLayer, loop.n, loop.r, idx)
       THEN /\ pc' = "hung"
            /\ last' = Logged("hang", idx)
            /\ UNCHANGED <<node, todo, written>>
       ELSE /\ IF IsGhostOf(node, loop.n, loop.r, idx)
               THEN \E t \in {GhostTreatment(node, poly, ibmLayer, loop.tn,
                                             loop.n, loop.r, idx)} :
                       /\ node' = StoreGhost(node, loop.tn, idx, t.UoG)
                       /\ last' = [kind |-> IF ibmLayer >= loop.r
                                            THEN "image" ELSE "weighting",
                                   idx |-> idx, idw |-> t.idw,
                                   UoO |-> t.UoO, UoI |-> t.UoI, UoG |-> t.UoG]
                       /\ written' = [written EXCEPT ![idx] = written[idx] + 1]
               ELSE /\ node' = TreatNode(node, poly, ibmLayer, loop.tn,
                                         loop.n, loop.r, idx)
                    /\ last' = Logged("skip", idx)
                    /\ written' = written
            /\ todo' = todo \ {idx}
            /\ pc' = pc
    /\ UNCHANGED <<poly, ibmLayer, loop, before, entry, calls, sched>>

NextLayer ==
    /\ pc = "ibt" /\ todo = {} /\ loop.r < part.gl
    /\ loop' = [loop EXCEPT !.r = loop.r + 1]
    /\ todo' = BoxNodes(poly, loop.n)
    /\ entry' = node
    /\ UNCHANGED <<node, poly, ibmLayer, pc, before, last, written, calls, sched>>

NextTreatedShape ==
    /\ pc = "ibt" /\ todo = {} /\ ~(loop.r < part.gl) /\ loop.n + 1 < totN
    /\ loop' = [loop EXCEPT !.n = loop.n + 1, !.r = 1]
    /\ todo' = BoxNodes(poly, loop.n + 1)
    /\ entry' = node
    /\ UNCHANGED <<node, poly, ibmLayer, pc, before, last, written, calls, sched>>

ReturnImmersedBoundaryTreatment ==
    /\ pc = "ibt" /\ todo = {} /\ ~(loop.r < part.gl) /\ ~(loop.n + 1 < totN)
    /\ pc' = "idle"
    /\ UNCHANGED <<node, poly, ibmLayer, loop, todo, before, entry, last, written,
                   calls, sched>>

\* a shape moves by at most gl spacings between two classifications (the
\* "restricted motion" InitializeGeometryDomain relies on)
Steps == { dx \in -2 * part.gl .. 2 * part.gl : dx # 0 /\ dx % 2 = 0 }

Next ==
    \/ \E n \in 0 .. totN - 1 : \E dx \in Steps : MoveShape(n, dx)
    \/ \E n \in 0 .. totN - 1 : SetState(n)
    \/ CallComputeGeometryDomain
    \/ \E idx \in Interior : InitializeGeometryDomain(idx)
    \/ EnterIdentifyGeometryNode
    \/ \E idx \in Interior : IdentifyGeometryNode(idx)
    \/ NextShape
    \/ EnterIdentifyInterfacialNode
    \/ \E idx \in Interior : IdentifyInterfacialNode(idx)
    \/ ReturnComputeGeometryDomain
    \/ \E tn \in TimeLevels : CallImmersedBoundaryTreatment(tn)
    \/ \E idx \in Interior : ImmersedBoundaryTreatment(idx)
    \/ NextLayer
    \/ NextTreatedShape
    \/ ReturnImmersedBoundaryTreatment

\* the program as written: every loop in the order of the source
Spec == InitSerial /\ [][Next]_vars

\* every loop visits its nodes in any order; the first shape moves, and the
\* shapes keep their state
NextAnyOrder ==
    \/ \E dx \in Steps : MoveShape(0, dx)
    \/ CallComputeGeometryDomain
    \/ \E idx \in Interior : InitializeGeometryDomain(idx)
    \/ EnterIdentifyGeometryNode
    \/ \E idx \in Interior : IdentifyGeometryNode(idx)
    \/ NextShape
    \/ EnterIdentifyInterfacialNode
    \/ \E idx \in Interior : IdentifyInterfacialNode(idx)
    \/ ReturnComputeGeometryDomain
    \/ \E tn \in TimeLevels : CallImmersedBoundaryTreatment(tn)
    \/ \E idx \in Interior : ImmersedBoundaryTreatment(idx)
    \/ NextLayer
    \/ NextTreatedShape
    \/ ReturnImmersedBoundaryTreatment

SpecAnyOrder == InitAny /\ [][NextAnyOrder]_vars

(***************************************************************************)
(* Properties.                                                             *)
(***************************************************************************)
\* no handler of ComputeGeometryDomain is running
Returned == pc \in {"idle", "stale", "ibt"}

\* C1: whenever ComputeGeometryDomain has returned, every interior node has
\* gst # 0 => lid # 0 and lid # 0 => gid # 0, whatever the classification
\* the call started from.
C1_ClassificationConsistent ==
    Returned =>
        \A idx \in Interior :
            /\ node[idx].gst # 0 => node[idx].lid # 0
            /\ node[idx].lid # 0 => node[idx].gid # 0

\* a call that started from a classified array (with ghost nodes and a
\* node that the call left unowned) has returned with ghost nodes and
\* interfacial non-ghost nodes
C1_Witness ==
    /\ pc = "idle" /\ last.kind \in {"iface", "joined"}
    /\ \E idx \in Interior : before[idx].gst # 0 /\ node[idx].gid = 0
    /\ \E idx \in Interior : node[idx].gst # 0
    /\ \E idx \in Interior : node[idx].lid # 0 /\ node[idx].gst = 0


\* the point of interior node idx
PointAt(idx) == PointOf(CoordOf(idx)[1], CoordOf(idx)[2], CoordOf(idx)[3])

\* the ids of the non-stationary shapes that contain node idx
Containing(idx) ==
    { g \in 1 .. totN :
        /\ poly[g].state # 1
        /\ IF 0 = poly[g].faceN
           THEN poly[g].r * poly[g].r >= Dist2(poly[g].O, PointAt(idx))
           ELSE \A s \in 1 .. 3 : /\ poly[g].box[s][1] <= PointAt(idx)[s]
                                  /\ PointAt(idx)[s] <= poly[g].box[s][2] }

\* the ownership phase has visited every shape
OwnershipDone == pc = "own" /\ todo = {} /\ loop.n = totN - 1

\* C2: ownership is exclusive and first-claim-wins.  A step of the ownership
\* phase never changes a non-zero gid; when the phase ends, a node that was
\* unowned when it began and lies inside non-stationary shapes is owned by
\* the first of them; and a gid is always 0 or the id of one shape.
C2_FirstClaimWins ==
    /\ [][pc = "own" =>
            \A idx \in Interior :
                node[idx].gid # 0 => node'[idx].gid = node[idx].gid]_vars
    /\ [](OwnershipDone =>
            \A idx \in Interior :
                (entry[idx].gid = 0 /\ Containing(idx) # {}) =>
                    /\ node[idx].gid \in Containing(idx)
                    /\ \A g \in Containing(idx) : node[idx].gid <= g)
    /\ [](\A idx \in Interior : node[idx].gid \in 0 .. totN)

\* the phase ends with a node inside both shapes, unowned when the phase
\* began, and a node that only the second shape contains
C2_Witness ==
    /\ OwnershipDone
    /\ \E idx \in Interior :
          entry[idx].gid = 0 /\ Containing(idx) = 1 .. totN /\ node[idx].gid = 1
    /\ \E idx \in Interior :
          entry[idx].gid = 0 /\ Containing(idx) = {totN} /\ node[idx].gid = totN

\* the analytical spheres of the collection
Spheres == { g \in 1 .. totN : 0 = poly[g].faceN }

\* node idx is within the radius of sphere g, surface included
Within(g, idx) == poly[g].r * poly[g].r >= Dist2(poly[g].O, PointAt(idx))

\* ComputeGeometryDomain has returned and the geometry has not changed since
Classification == pc = "idle"

\* ComputeGeometryDomain is running or was the last handler to run
InOrAfterClassification ==
    \/ pc \in {"reset", "own", "iface"}
    \/ pc = "idle" /\ last.kind \in {"iface", "joined"}

\* C3 as stated: after ComputeGeometryDomain a node is owned by an analytical
\* sphere if and only if its distance to the centre is at most the radius.
C3_SphereExact ==
    Classification =>
        \A g \in Spheres : \A idx \in Interior :
            node[idx].gid = g <=> Within(g, idx)

\* the sphere has moved two spacings away from the end of the domain and the
\* array is classified again: the sphere still owns a node that lies outside
\* its radius, a node it owned with lid = 0 (its outer neighbours are
\* exterior nodes), which the reset keeps and no phase tests again
C3_Witness ==
    /\ Classification /\ last.kind \in {"iface", "joined"}
    /\ \E g \in Spheres :
          /\ poly[g].state # 1
          /\ \E idx \in Interior :
                /\ node[idx].gid = g /\ ~Within(g, idx)
                /\ before[idx].gid = g /\ before[idx].lid = 0
          /\ \E idx \in Interior : node[idx].gid = g /\ Within(g, idx)

\* C4: every search of InverseDistanceWeighting returns: no handler is ever
\* stuck in the radius-expansion loop for want of a donor.
C4_SearchReturns == pc # "hung"

(***************************************************************************)
(* The loops of the source run over a set S of nodes in increasing index   *)
(* order: k outermost, i innermost.                                        *)
(***************************************************************************)
First(S) == CHOOSE idx \in S : \A other \in S : idx <= other

RECURSIVE ResetSweep(_, _, _)
ResetSweep(nd, ps, S) ==
    IF S = {} THEN nd
    ELSE ResetSweep(ResetNode(nd, ps, First(S)), ps, S \ {First(S)})

RECURSIVE ClaimSweep(_, _, _, _)
ClaimSweep(nd, ps, n, S) ==
    IF S = {} THEN nd
    ELSE ClaimSweep(ClaimNode(nd, ps, n, First(S)), ps, n, S \ {First(S)})

\* the loop over the shapes n .. totN - 1 of IdentifyGeometryNode
RECURSIVE ClaimShapes(_, _, _)
ClaimShapes(nd, ps, n) ==
    IF ~(n < totN) THEN nd
    ELSE ClaimShapes(ClaimSweep(nd, ps, n, ShapeNodes(ps, n)), ps, n + 1)

RECURSIVE InterfacialSweep(_, _)
InterfacialSweep(nd, S) ==
    IF S = {} THEN nd
    ELSE InterfacialSweep(InterfacialNode(nd, First(S)), S \ {First(S)})

RECURSIVE TreatSweep(_, _, _, _, _, _, _)
TreatSweep(nd, ps, ibm, tn, n, r, S) ==
    IF S = {} THEN nd
    ELSE TreatSweep(TreatNode(nd, ps, ibm, tn, n, r, First(S)), ps, ibm, tn, n, r,
                    S \ {First(S)})

\* what the running phase makes of the array it was entered with, when its
\* loop runs in the order of the source
InSourceOrder ==
    CASE pc = "reset" -> ResetSweep(entry, poly, Interior)
      [] pc = "own"   -> ClaimShapes(entry, poly, 0)
      [] pc = "iface" -> InterfacialSweep(entry, Interior)
      [] pc = "ibt"   -> TreatSweep(entry, poly, ibmLayer, loop.tn, loop.n, loop.r,
                                    BoxNodes(poly, loop.n))

\* the running phase has visited all its nodes
PhaseDone ==
    /\ pc \in {"reset", "own", "iface", "ibt"} /\ todo = {}
    /\ pc = "own" => loop.n = totN - 1

Fields(rec) == <<rec.gid, rec.fid, rec.lid, rec.gst>>

\* C5 as stated: in every phase, whatever the order in which the nodes are
\* visited, the phase ends with the node array that the order of the source
\* gives.
C5_OrderIndependent == PhaseDone => node = InSourceOrder

\* C5, amended: the reset and ownership phases and each ghost layer of the
\* boundary treatment end with the same node array for every order; the
\* interfacial phase ends with the same classification fields for every
\* order and the same state at every node that was not newly joined when
\* the phase began.
C5_OrderIndependentButJoined ==
    PhaseDone =>
        IF pc = "iface"
        THEN \A idx \in Interior :
                /\ Fields(node[idx]) = Fields(InSourceOrder[idx])
                /\ ~NewlyJoined(entry, idx) => node[idx].U = InSourceOrder[idx].U
        ELSE node = InSourceOrder

\* a phase ends after its loop visited the nodes out of the order of the
\* source: an interfacial phase that reconstructed two newly joined nodes
\* and gave them a state the order of the source does not give
C5_Witness ==
    /\ PhaseDone /\ pc = "iface"
    /\ last.idx # CHOOSE idx \in Interior : \A other \in Interior : other <= idx
    /\ \E a, b \in Interior : a # b /\ NewlyJoined(entry, a) /\ NewlyJoined(entry, b)
    /\ node # InSourceOrder

\* the nodes the search recorded in step accumulated
DonorNodes(step) == { CandidateIndex(step.idw.n, o) : o \in step.idw.donors }

DeepStationary(idx) ==
    /\ before[idx].gid # 0 /\ before[idx].lid = 0
    /\ poly[before[idx].gid].state = 1

\* C7: a call of ComputeGeometryDomain leaves every node that a stationary
\* shape owned with lid = 0 when the call was made with all of its fields
\* (gid, fid, lid, gst, U) as they were, at every step of the call and when
\* it has returned.
C7_DeepStationaryUnchanged ==
    InOrAfterClassification =>
        \A idx \in Interior : DeepStationary(idx) => node[idx] = before[idx]

\* the call has returned for a stationary shape that owns a non-interfacial
\* node and interfacial nodes
C7_Witness ==
    /\ pc = "idle" /\ last.kind \in {"iface", "joined"}
    /\ \E idx, other \in Interior :
          /\ DeepStationary(idx) /\ node[idx] = before[idx]
          /\ node[other].gid = node[idx].gid /\ node[other].lid # 0

\* the 3D index <<k, j, i>> lies within the extents of the node array
InGrid(c) ==
    /\ 0 <= c[1] /\ c[1] < part.n[3]
    /\ 0 <= c[2] /\ c[2] < part.n[2]
    /\ 0 <= c[3] /\ c[3] < part.n[1]

\* C8: no search of InverseDistanceWeighting accumulates a candidate whose
\* 3D index lies outside the node array in any dimension.
C8_DonorsInGrid ==
    \A o \in last.idw.donors : InGrid(Candidate(last.idw.n, o))

\* equality of two rationals
REq(a, b) == a[1] * b[2] = b[1] * a[2]

\* C9: whenever a ghost node is treated by the method of image, the ghost
\* state MethodOfImage returns has UoG[c] + UoI[c] = 2 * UoO[c] for the three
\* velocity components c, and the pressure and temperature of the image
\* point.
C9_ImageSymmetry ==
    last.kind = "image" =>
        /\ \A c \in 1 .. 3 :
              REq(RAdd(last.UoG[c], last.UoI[c]), RMul(RInt(2), last.UoO[c]))
        /\ REq(last.UoG[4], last.UoI[4])
        /\ REq(last.UoG[5], last.UoI[5])

\* a ghost node has been treated by the method of image with a moving
\* boundary and an image velocity that differs from the boundary's
C9_Witness ==
    /\ last.kind = "image"
    /\ \E c \in 1 .. 3 :
          /\ ~REq(last.UoO[c], RInt(0))
          /\ ~REq(last.UoI[c], last.UoO[c])
          /\ ~REq(last.UoI[c], RInt(0))

\* what the reset makes of the record old of an interior node, case by case
ResetCase(old, new) ==
    /\ new.U = old.U
    /\ CASE old.gid = 0 ->
              Fields(new) = <<0, NONE, 0, 0>>
         [] old.gid # 0 /\ poly[old.gid].state = 1 ->
              Fields(new) = <<old.gid, old.fid, 0, 0>>
         [] old.gid # 0 /\ poly[old.gid].state # 1 /\ old.lid > 0 ->
              Fields(new) = <<0, old.fid, 0, 0>>
         [] old.gid # 0 /\ poly[old.gid].state # 1 /\ old.lid = 0 ->
              new = old

\* C10: a step of the reset phase changes the visited node only, by its
\* case: an unowned node ends with gid, lid, gst zero and no face id; a
\* node of a stationary shape keeps gid and fid and ends with lid, gst
\* zero; a node of a moving shape with lid > 0 ends with gid, lid, gst
\* zero; a node of a moving shape with lid = 0 is unchanged.
C10_ResetCases ==
    [][(pc = "reset" /\ last' # last) =>
          /\ \A idx \in Interior \ {last'.idx} : node'[idx] = node[idx]
          /\ ResetCase(node[last'.idx], node'[last'.idx])]_vars

\* a reset phase has visited all nodes of an array that held an unowned
\* node, a node of a stationary shape, and an interfacial and a
\* non-interfacial node of a moving shape
C10_Witness ==
    /\ pc = "reset" /\ todo = {}
    /\ \E idx \in Interior : before[idx].gid = 0
    /\ \E idx \in Interior : before[idx].gid # 0 /\ poly[before[idx].gid].state = 1
    /\ \E idx \in Interior :
          before[idx].gid # 0 /\ poly[before[idx].gid].state # 1 /\ before[idx].lid > 0
    /\ \E idx \in Interior :
          before[idx].gid # 0 /\ poly[before[idx].gid].state # 1 /\ before[idx].lid = 0

(***************************************************************************)
(* The ghost state of an interfacial node, restated from the template.     *)
(***************************************************************************)
\* the template positions n of layer r
LayerRange(r) ==
    (IF r = 1 THEN 0 ELSE part.pathSep[r - 1]) .. part.pathSep[r] - 1

\* the template positions around node idx that hold a node owned by target
\* (an exterior node, gid = NONE, is owned by no target)
Neighbours(idx, target) ==
    { n \in 0 .. part.pathSep[0] - 1 :
        NodeAt(node, PathIndex(CoordOf(idx)[1], CoordOf(idx)[2],
                               CoordOf(idx)[3], n)).gid = target }

\* the layer of the nearest neighbour of node idx owned by target, 0 if the
\* template holds none
NearestLayer(idx, target) ==
    IF Neighbours(idx, target) = {} THEN 0
    ELSE CHOOSE r \in 1 .. part.gl :
            \E n \in Neighbours(idx, target) \cap LayerRange(r) :
                \A m \in Neighbours(idx, target) : n <= m

\* C11 as stated: when ComputeGeometryDomain has returned, the ghost state
\* of an interfacial owned node is the layer of its nearest valid neighbour
\* that has the same owner as the node, 0 if there is none.
C11_GhostBySameOwner ==
    Classification =>
        \A idx \in Interior :
            (node[idx].gid # 0 /\ node[idx].lid # 0) =>
                node[idx].gst = NearestLayer(idx, node[idx].gid)

\* C11, amended: when ComputeGeometryDomain has returned, the ghost state of
\* an interfacial owned node is the layer of its nearest valid neighbour
\* that no shape owns (gid = 0), 0 if the template holds none; a node that
\* is not interfacial has ghost state 0.
C11_GhostByUnowned ==
    Classification =>
        \A idx \in Interior :
            node[idx].gid # 0 =>
                node[idx].gst = IF node[idx].lid # 0
                                THEN NearestLayer(idx, 0) ELSE 0

\* a classified array with a ghost node of each layer, and an interfacial
\* node with no unowned neighbour in the template, which is no ghost node
C11_Witness ==
    /\ Classification
    /\ \A r \in 1 .. part.gl : \E idx \in Interior :
          node[idx].gid # 0 /\ node[idx].gst = r /\ NearestLayer(idx, 0) = r
    /\ \E idx \in Interior :
          node[idx].gid # 0 /\ node[idx].lid # 0 /\ node[idx].gst = 0

\* a step of ComputeGeometryDomain changes the flow state of a node only in
\* the interfacial phase, for a node newly joined when the phase began
RewritesOnlyJoined ==
    pc \in {"reset", "own", "iface"} =>
        \A idx \in Interior :
            node'[idx].U # node[idx].U =>
                pc = "iface" /\ NewlyJoined(entry, idx)

\* C12: whenever ComputeGeometryDomain has returned, no interior node is
\* unowned with a face identifier other than NONE; and a step of the call
\* changes the flow state of a node only in the interfacial phase and only
\* for a node that left the ownership phase unowned with a face identifier
\* other than NONE.
C12_NewlyExposedResolved ==
    /\ [](Returned => \A idx \in Interior :
                        node[idx].gid = 0 => node[idx].fid = NONE)
    /\ [][RewritesOnlyJoined]_vars

\* the call has returned after it rebuilt the flow state of a newly exposed
\* node, which is now unowned with face identifier NONE, and with it a node
\* it left alone
C12_Witness ==
    /\ pc = "idle" /\ last.kind \in {"iface", "joined"}
    /\ \E idx \in Interior :
          /\ NewlyJoined(entry, idx)
          /\ node[idx].gid = 0 /\ node[idx].fid = NONE
          /\ node[idx].U # entry[idx].U
    /\ \E idx \in Interior : ~NewlyJoined(entry, idx) /\ node[idx].U = before[idx].U

(***************************************************************************)
(* The result of InverseDistanceWeighting, restated over the nodes of the  *)
(* array instead of the offsets of the loops.                              *)
(***************************************************************************)
\* the nodes of the array inside the cube of half-width r around the centre
\* n = <<n[X], n[Y], n[Z]>> that pass the ownership / type filter
CubeNodes(nd, n, r, type, gid) ==
    { idx \in 0 .. idxMax - 1 :
        /\ Abs(CoordOf(idx)[1] - n[3]) <= r
        /\ Abs(CoordOf(idx)[2] - n[2]) <= r
        /\ Abs(CoordOf(idx)[3] - n[1]) <= r
        /\ gid = NodeAt(nd, idx).gid
        /\ IF 0 = gid THEN type = NodeAt(nd, idx).fid
                      ELSE type = NodeAt(nd, idx).gst }

\* the weight of node idx for the point p: the inverse of the squared
\* distance, of tinyL if that is larger
WeightOf(p, idx) ==
    LET d == RInt(Dist2(p, PointAt(idx)))
    IN  RDiv(RInt(1), IF RLess(d, part.tinyL) THEN part.tinyL ELSE d)

RECURSIVE WeightSum(_, _)
WeightSum(p, S) ==
    IF S = {} THEN RInt(0)
    ELSE LET idx == CHOOSE x \in S : TRUE
         IN  RAdd(WeightOf(p, idx), WeightSum(p, S \ {idx}))

\* the search whose result is w, made on the array nd, accumulated the
\* qualifying nodes of the smallest cube that holds one, each of them once
ExactDonors(nd, w) ==
    /\ w.donors # {}
    /\ \A q \in w.h .. w.r - 1 : CubeNodes(nd, w.n, q, w.type, w.gid) = {}
    /\ { CandidateIndex(w.n, o) : o \in w.donors }
          = CubeNodes(nd, w.n, w.r, w.type, w.gid)
    /\ Cardinality(w.donors)
          = Cardinality(CubeNodes(nd, w.n, w.r, w.type, w.gid))
    /\ REq(w.weightSum,
           WeightSum(w.p, CubeNodes(nd, w.n, w.r, w.type, w.gid)))

\* C13: every search of InverseDistanceWeighting that returns has
\* accumulated at least one donor, exactly the nodes that pass the filter
\* inside the cube of the smallest radius from the starting half-width that
\* holds one, each of them once, and returns the sum of their weights.
C13_ExactDonorSum ==
    [][(last' # last /\ last'.idw # NoIDW) => ExactDonors(node, last'.idw)]_vars

\* a search has returned with one node of the array accumulated under two
\* offsets of the cube
C13_Witness ==
    \E o, q \in last.idw.donors :
        o # q /\ CandidateIndex(last.idw.n, o) = CandidateIndex(last.idw.n, q)

\* C14: whenever ComputeGeometryDomain has returned, lid and gst of every
\* owned interior node lie in 0 .. gl, and a node with gst # 0 has
\* 1 <= lid <= gst.
C14_LayerWithinGhost ==
    Returned =>
        \A idx \in Interior :
            node[idx].gid # 0 =>
                /\ node[idx].lid \in 0 .. part.gl
                /\ node[idx].gst \in 0 .. part.gl
                /\ node[idx].gst # 0 =>
                      1 <= node[idx].lid /\ node[idx].lid <= node[idx].gst

\* a classified array with a ghost node whose interfacial layer is its ghost
\* layer and one whose interfacial layer is shallower than its ghost layer
C14_Witness ==
    /\ Classification
    /\ \E idx \in Interior :
          node[idx].gid # 0 /\ node[idx].gst # 0 /\ node[idx].lid = node[idx].gst
    /\ \E idx \in Interior :
          node[idx].gid # 0 /\ node[idx].gst # 0 /\ node[idx].lid < node[idx].gst

\* ImmersedBoundaryTreatment has returned and nothing has run since
TreatmentReturned == pc = "idle" /\ last.kind \in {"image", "weighting", "skip"}

\* node idx was a ghost node when ImmersedBoundaryTreatment was called
GhostAtCall(idx) ==
    before[idx].gid # 0 /\ before[idx].gst \in 1 .. part.gl

====
